---- MODULE Spec2Model ----
(***************************************************************************)
(* Model of the bodhak content backend: the admin CRUD handlers of         *)
(* src/index.ts (subjects, topics, articles), the JWT middleware of        *)
(* src/auth.ts and the rank arithmetic (LexoRank) the handlers call.       *)
(*                                                                         *)
(* Strings are sequences of one-character strings; numbers of the rank     *)
(* arithmetic are base-36 digit sequences, least significant digit first,  *)
(* as in the LexoInteger magnitude array.                                  *)
(***************************************************************************)
EXTENDS Integers, Sequences, FiniteSets, TLC

(***************************************************************************)
(* Characters and strings                                                  *)
(***************************************************************************)

\* The characters of the model in ascending code-unit order.
Alphabet ==
  << "-", "0", "1", "2", "3", "4", "5", "6", "7", "8", "9", ":", "H",
     "a", "b", "c", "d", "e", "f", "g", "h", "i", "j", "k", "l", "m",
     "n", "o", "p", "q", "r", "s", "t", "u", "v", "w", "x", "y", "z", "|" >>

\* The digits of LexoNumeralSystem36 in value order.
DigitChars ==
  << "0", "1", "2", "3", "4", "5", "6", "7", "8", "9",
     "a", "b", "c", "d", "e", "f", "g", "h", "i", "j", "k", "l", "m",
     "n", "o", "p", "q", "r", "s", "t", "u", "v", "w", "x", "y", "z" >>

Base == Len(DigitChars)

IndexOf(seq, x) == CHOOSE i \in 1..Len(seq) : seq[i] = x

CodeOf == [ ch \in { Alphabet[i] : i \in 1..Len(Alphabet) } |-> IndexOf(Alphabet, ch) ]

DigitOf == [ ch \in { DigitChars[i] : i \in 1..Len(DigitChars) } |-> IndexOf(DigitChars, ch) - 1 ]

IsDigitChar(ch) == ch \in DOMAIN DigitOf

\* LexoNumeralSystem36.toDigit (defined on digit characters only)
toDigit(ch) == DigitOf[ch]

\* LexoNumeralSystem36.toChar
toChar(d) == DigitChars[d + 1]

\* JavaScript's < on strings: code-unit lexicographic order.
\* a comparison that puts every shorter string first
StrLess_ShortFirst(s, t) ==
  \/ Len(s) < Len(t)
  \/ /\ Len(s) = Len(t)
     /\ \E i \in 1..Len(s) :
          /\ CodeOf[s[i]] < CodeOf[t[i]]
          /\ \A j \in 1..(i - 1) : s[j] = t[j]

RECURSIVE StrLess(_, _)
StrLess(s, t) ==
  IF t = << >> THEN FALSE
  ELSE IF s = << >> THEN TRUE
  ELSE IF s[1] # t[1] THEN CodeOf[s[1]] < CodeOf[t[1]]
  ELSE StrLess(Tail(s), Tail(t))

\* Positions of ch in s
Positions(s, ch) == { i \in 1..Len(s) : s[i] = ch }


(***************************************************************************)
(* LexoInteger: sign and magnitude, magnitude least significant first      *)
(***************************************************************************)

RECURSIVE StripZeros(_)
\* LexoInteger.make: drop the most significant zero digits
StripZeros(m) ==
  IF m = << >> THEN m
  ELSE IF m[Len(m)] = 0 THEN StripZeros(SubSeq(m, 1, Len(m) - 1))
  ELSE m

RECURSIVE MagCmpFrom(_, _, _)
MagCmpFrom(a, b, i) ==
  IF i = 0 THEN 0
  ELSE IF a[i] < b[i] THEN -1
  ELSE IF a[i] > b[i] THEN 1
  ELSE MagCmpFrom(a, b, i - 1)

\* LexoInteger.compare on magnitudes (both stripped)
MagCmp(a, b) ==
  IF Len(a) < Len(b) THEN -1
  ELSE IF Len(a) > Len(b) THEN 1
  ELSE MagCmpFrom(a, b, Len(a))

DigitAt(m, i) == IF i <= Len(m) THEN m[i] ELSE 0

RECURSIVE MagAddFrom(_, _, _, _)
MagAddFrom(a, b, i, carry) ==
  IF i > Len(a) /\ i > Len(b)
  THEN IF carry = 0 THEN << >> ELSE << carry >>
  ELSE LET s == DigitAt(a, i) + DigitAt(b, i) + carry
       IN  << s % Base >> \o MagAddFrom(a, b, i + 1, s \div Base)

\* LexoInteger.Add on magnitudes
MagAdd(a, b) == StripZeros(MagAddFrom(a, b, 1, 0))

RECURSIVE MagSubFrom(_, _, _, _)
MagSubFrom(a, b, i, borrow) ==
  IF i > Len(a) THEN << >>
  ELSE LET d == DigitAt(a, i) - DigitAt(b, i) - borrow
       IN  IF d < 0
           THEN << d + Base >> \o MagSubFrom(a, b, i + 1, 1)
           ELSE << d >> \o MagSubFrom(a, b, i + 1, 0)

\* LexoInteger.Subtract on magnitudes, a >= b
MagSub(a, b) == StripZeros(MagSubFrom(a, b, 1, 0))

RECURSIVE MagMulDigitFrom(_, _, _, _)
MagMulDigitFrom(a, d, i, carry) ==
  IF i > Len(a)
  THEN IF carry = 0 THEN << >> ELSE << carry >>
  ELSE LET p == a[i] * d + carry
       IN  << p % Base >> \o MagMulDigitFrom(a, d, i + 1, p \div Base)

RECURSIVE Zeros(_)
Zeros(n) == IF n <= 0 THEN << >> ELSE << 0 >> \o Zeros(n - 1)

RECURSIVE MagMulFrom(_, _, _)
MagMulFrom(a, b, j) ==
  IF j > Len(b) THEN << >>
  ELSE MagAdd(Zeros(j - 1) \o MagMulDigitFrom(a, b[j], 1, 0), MagMulFrom(a, b, j + 1))

\* LexoInteger.Multiply on magnitudes
MagMul(a, b) == StripZeros(MagMulFrom(a, b, 1))

\* A LexoInteger: sign in {-1, 0, 1} and a stripped magnitude
IntZero == [sign |-> 0, mag |-> << >>]
IntOne  == [sign |-> 1, mag |-> << 1 >>]

\* the LexoInteger of a sign and a stripped magnitude
IntOf(sign, m) == IF m = << >> THEN IntZero ELSE [sign |-> sign, mag |-> m]

IntMake(sign, mag) == IntOf(sign, StripZeros(mag))

IntIsZero(x) == x.sign = 0

IntNegate(x) == [sign |-> 0 - x.sign, mag |-> x.mag]

\* the sum of two LexoIntegers of opposite signs, c comparing their magnitudes
IntDiff(x, y, c) ==
  IF c = 0 THEN IntZero
  ELSE IF c > 0 THEN IntOf(x.sign, MagSub(x.mag, y.mag))
  ELSE IntOf(y.sign, MagSub(y.mag, x.mag))

\* LexoInteger.add
IntAdd(x, y) ==
  IF x.sign = 0 THEN y
  ELSE IF y.sign = 0 THEN x
  ELSE IF x.sign = y.sign THEN IntOf(x.sign, MagAdd(x.mag, y.mag))
  ELSE IntDiff(x, y, MagCmp(x.mag, y.mag))

\* LexoInteger.subtract
IntSub(x, y) == IntAdd(x, IntNegate(y))

\* LexoInteger.multiply
IntMul(x, y) ==
  IF x.sign = 0 \/ y.sign = 0 THEN IntZero
  ELSE IntMake(x.sign * y.sign, MagMul(x.mag, y.mag))

\* LexoInteger.compareTo
IntCmp(x, y) ==
  IF x.sign # y.sign THEN (IF x.sign < y.sign THEN -1 ELSE 1)
  ELSE IF x.sign = 0 THEN 0
  ELSE x.sign * MagCmp(x.mag, y.mag)

\* LexoInteger.shiftLeft(times): multiply by Base^times
IntShiftLeft(x, n) ==
  IF n <= 0 \/ x.sign = 0 THEN x ELSE [sign |-> x.sign, mag |-> Zeros(n) \o x.mag]

\* LexoInteger.shiftRight(times): drop the n least significant digits
IntShiftRight(x, n) ==
  IF n <= 0 THEN x
  ELSE IF Len(x.mag) <= n THEN IntZero
  ELSE IntMake(x.sign, SubSeq(x.mag, n + 1, Len(x.mag)))

\* LexoInteger.format (no sign character for the non-negative values)
IntFormat(x) ==
  IF x.sign = 0 THEN << "0" >>
  ELSE (IF x.sign < 0 THEN << "-" >> ELSE << >>)
       \o [ i \in 1..Len(x.mag) |-> toChar(x.mag[Len(x.mag) + 1 - i]) ]

(***************************************************************************)
(* LexoDecimal: a LexoInteger mag and a scale sig (value = mag / Base^sig) *)
(***************************************************************************)

RECURSIVE LowZeroCount(_, _, _)
\* the loop of LexoDecimal.make: low-order zero digits among the first sig
LowZeroCount(mag, sig, i) ==
  IF i <= sig /\ DigitAt(mag, i) = 0 THEN 1 + LowZeroCount(mag, sig, i + 1) ELSE 0

\* LexoDecimal.make
DecMake(int, sig) ==
  IF IntIsZero(int) THEN [mag |-> int, sig |-> 0]
  ELSE LET zeroCount == LowZeroCount(int.mag, sig, 1)
       IN  [mag |-> IntShiftRight(int, zeroCount), sig |-> sig - zeroCount]

\* LexoDecimal.from
DecFrom(int) == DecMake(int, 0)

\* LexoDecimal.half
DecHalf == DecMake(IntMake(1, << Base \div 2 >>), 1)

Max2(a, b) == IF a > b THEN a ELSE b

\* LexoDecimal.add
DecAdd(x, y) ==
  LET s == Max2(x.sig, y.sig)
  IN  DecMake(IntAdd(IntShiftLeft(x.mag, s - x.sig), IntShiftLeft(y.mag, s - y.sig)), s)

\* LexoDecimal.subtract
DecSub(x, y) ==
  LET s == Max2(x.sig, y.sig)
  IN  DecMake(IntSub(IntShiftLeft(x.mag, s - x.sig), IntShiftLeft(y.mag, s - y.sig)), s)

\* LexoDecimal.multiply
DecMul(x, y) == DecMake(IntMul(x.mag, y.mag), x.sig + y.sig)

\* LexoDecimal.floor
DecFloor(x) == IntShiftRight(x.mag, x.sig)

\* LexoDecimal.isExact
DecIsExact(x) == x.sig = 0 \/ \A i \in 1..x.sig : DigitAt(x.mag.mag, i) = 0

\* LexoDecimal.ceil
DecCeil(x) == IF DecIsExact(x) THEN x.mag ELSE IntAdd(DecFloor(x), IntOne)

\* the end of LexoDecimal.setScale: nmag is the shifted mantissa
DecScaled(nmag, n, ceiling) == DecMake(IF ceiling THEN IntAdd(nmag, IntOne) ELSE nmag, n)

\* LexoDecimal.setScale(nsig, ceiling)
DecSetScale(x, nsig, ceiling) ==
  IF nsig >= x.sig THEN x
  ELSE DecScaled(IntShiftRight(x.mag, x.sig - Max2(nsig, 0)), Max2(nsig, 0), ceiling)

\* LexoDecimal.compareTo
DecCmp(x, y) ==
  IntCmp(IntShiftLeft(x.mag, y.sig - x.sig), IntShiftLeft(y.mag, x.sig - y.sig))

\* the digits padded with zeros to sig + 1 characters, the radix point
\* inserted before the last sig of them
FormatPadded(padded, sig) ==
  SubSeq(padded, 1, Len(padded) - sig) \o << ":" >>
    \o SubSeq(padded, Len(padded) - sig + 1, Len(padded))

FormatDigits(body, sig) ==
  FormatPadded([ i \in 1..(sig + 1 - Len(body)) |-> "0" ] \o body, sig)

FormatSigned(intStr, sig) ==
  IF intStr[1] = "-" THEN << "-" >> \o FormatDigits(Tail(intStr), sig)
  ELSE FormatDigits(intStr, sig)

\* LexoDecimal.format
DecFormat(x) == IF x.sig = 0 THEN IntFormat(x.mag) ELSE FormatSigned(IntFormat(x.mag), x.sig)

\* LexoInteger.parse: every character must be a digit, a leading "-" is a sign
IntParseOk(str) ==
  LET body == IF str # << >> /\ str[1] = "-" THEN Tail(str) ELSE str
  IN  \A i \in 1..Len(body) : IsDigitChar(body[i])

IntParse(str) ==
  LET neg  == str # << >> /\ str[1] = "-"
      body == IF neg THEN Tail(str) ELSE str
  IN  IntMake(IF neg THEN -1 ELSE 1, [ i \in 1..Len(body) |-> toDigit(body[Len(body) + 1 - i]) ])

\* LexoDecimal.parse: at most one radix point, the rest an integer
DecParseOk(str) ==
  LET pts == Positions(str, ":")
  IN  /\ Cardinality(pts) <= 1
      /\ IntParseOk(SelectSeq(str, LAMBDA ch : ch # ":"))

DecParse(str) ==
  LET pts == Positions(str, ":")
  IN  IF pts = {} THEN DecMake(IntParse(str), 0)
      ELSE LET p == CHOOSE i \in pts : TRUE
           IN  DecMake(IntParse(SubSeq(str, 1, p - 1) \o SubSeq(str, p + 1, Len(str))),
                       Len(str) - p)

(***************************************************************************)
(* LexoRank: a bucket (0, 1 or 2) and a LexoDecimal                        *)
(***************************************************************************)

MaxDecimalStr == << "1", "0", "0", "0", "0", "0", "0" >>

\* width of the integer part written by formatDecimal
IntPartLen == Len(MaxDecimalStr) - 1

ZERO_DECIMAL  == DecParse(<< "0" >>)
ONE_DECIMAL   == DecParse(<< "1" >>)
EIGHT_DECIMAL == DecParse(<< "8" >>)
MIN_DECIMAL   == ZERO_DECIMAL
MAX_DECIMAL   == DecSub(DecParse(MaxDecimalStr), ONE_DECIMAL)
INITIAL_MIN_DECIMAL == DecParse(<< "1", "0", "0", "0", "0", "0" >>)
INITIAL_MAX_DECIMAL == DecParse(<< toChar(Base - 2), "0", "0", "0", "0", "0" >>)

\* LexoRank.mid, the choice among the rounded values
PickMid(left, right, mid, roundDown, roundUp) ==
  IF DecCmp(roundDown, left) > 0 THEN roundDown
  ELSE IF DecCmp(roundUp, right) < 0 THEN roundUp
  ELSE mid

\* LexoRank.mid, after sum.multiply(HALF)
RoundMid(left, right, mid, scale) ==
  IF mid.sig > scale
  THEN PickMid(left, right, mid, DecSetScale(mid, scale, FALSE), DecSetScale(mid, scale, TRUE))
  ELSE mid

\* LexoRank.mid
DecMid(left, right) ==
  RoundMid(left, right, DecMul(DecAdd(left, right), DecHalf), Max2(left.sig, right.sig))

\* LexoRank.checkMid
checkMid(lbound, rbound, mid) ==
  IF DecCmp(lbound, mid) >= 0 \/ DecCmp(mid, rbound) >= 0 THEN DecMid(lbound, rbound)
  ELSE mid

\* LexoRank.middleInternal
middleInternal(lbound, rbound, left, right) == checkMid(lbound, rbound, DecMid(left, right))

RECURSIVE ShortenMid(_, _, _, _)
\* one pass of the last loop of the static LexoRank.between, nMid = mid.setScale(mScale - 1)
ShortenStep(oLeft, oRight, mid, mScale, nMid) ==
  IF DecCmp(oLeft, nMid) >= 0 \/ DecCmp(nMid, oRight) >= 0 THEN mid
  ELSE ShortenMid(oLeft, oRight, nMid, mScale - 1)

\* the last loop of the static LexoRank.between: drop digits of mid while it
\* stays strictly inside the bounds
ShortenMid(oLeft, oRight, mid, mScale) ==
  IF mScale <= 0 THEN mid
  ELSE ShortenStep(oLeft, oRight, mid, mScale, DecSetScale(mid, mScale - 1, FALSE))

\* the static LexoRank.between after its first loop
ShortenFrom(oLeft, oRight, mid) == ShortenMid(oLeft, oRight, mid, mid.sig)

RECURSIVE NarrowScale(_, _, _, _, _)
\* one pass of the first loop of the static LexoRank.between; cmp compares
\* nLeft1 with nRight and is 1 once scale is 0
NarrowStep(oLeft, oRight, left, right, scale, nLeft1, nRight, cmp) ==
  IF cmp = 0 THEN checkMid(oLeft, oRight, nLeft1)
  ELSE IF cmp > 0 THEN ShortenFrom(oLeft, oRight, middleInternal(oLeft, oRight, left, right))
  ELSE NarrowScale(oLeft, oRight, nLeft1, nRight, scale - 1)

NarrowPair(oLeft, oRight, left, right, scale, nLeft1, nRight) ==
  NarrowStep(oLeft, oRight, left, right, scale, nLeft1, nRight,
             IF scale <= 0 THEN 1 ELSE DecCmp(nLeft1, nRight))

\* the first loop of the static LexoRank.between: shorten both bounds while
\* they stay apart
NarrowScale(oLeft, oRight, left, right, scale) ==
  NarrowPair(oLeft, oRight, left, right, scale,
             DecSetScale(left, scale - 1, TRUE), DecSetScale(right, scale - 1, FALSE))

\* static LexoRank.between after both bounds are brought to one scale
BetweenScaled(oLeft, oRight, left, right) ==
  IF \/ oLeft.sig < oRight.sig /\ DecCmp(oLeft, right) >= 0
     \/ oLeft.sig > right.sig /\ DecCmp(left, right) >= 0
  THEN DecMid(oLeft, oRight)
  ELSE NarrowScale(oLeft, oRight, left, right, left.sig)

BetweenRight(oLeft, oRight, right) ==
  BetweenScaled(oLeft, oRight,
                IF oLeft.sig > right.sig THEN DecSetScale(oLeft, right.sig, TRUE) ELSE oLeft,
                right)

\* static LexoRank.between(oLeft, oRight) on decimals
DecBetween(oLeft, oRight) ==
  BetweenRight(oLeft, oRight,
               IF oLeft.sig < oRight.sig THEN DecSetScale(oRight, oLeft.sig, FALSE) ELSE oRight)

RECURSIVE StripTrailingZeroChars(_)
StripTrailingZeroChars(s) ==
  IF s # << >> /\ s[Len(s)] = "0" THEN StripTrailingZeroChars(SubSeq(s, 1, Len(s) - 1)) ELSE s

\* formatDecimal on the formatted value, pts the positions of its radix point
PadWith(formatVal, pts) ==
  IF pts = {}
  THEN StripTrailingZeroChars([ i \in 1..(IntPartLen - Len(formatVal)) |-> "0" ]
                                \o formatVal \o << ":" >>)
  ELSE StripTrailingZeroChars([ i \in 1..(IntPartLen + 1 - CHOOSE i \in pts : TRUE) |-> "0" ]
                                \o formatVal)

\* LexoRank.formatDecimal
formatDecimal(decimal) == PadWith(DecFormat(decimal), Positions(DecFormat(decimal), ":"))

\* LexoRankBucket.from: the bucket string must parse to 0, 1 or 2
BucketOk(str) ==
  /\ IntParseOk(str)
  /\ \E b \in 0..2 : IntCmp(IntParse(str), IntMake(1, << b >>)) = 0

BucketFrom(str) == CHOOSE b \in 0..2 : IntCmp(IntParse(str), IntMake(1, << b >>)) = 0

\* String.split('|'): the parts before the first and between the first two bars
SplitPart0(str) ==
  LET bars == Positions(str, "|")
  IN  IF bars = {} THEN str
      ELSE SubSeq(str, 1, (CHOOSE i \in bars : \A j \in bars : i <= j) - 1)

SplitPart1(str) ==
  LET bars  == Positions(str, "|")
      first == CHOOSE i \in bars : \A j \in bars : i <= j
      rest  == { j \in bars : j > first }
      stop  == IF rest = {} THEN Len(str) + 1 ELSE CHOOSE i \in rest : \A j \in rest : i <= j
  IN  SubSeq(str, first + 1, stop - 1)

\* LexoRank.parse succeeds (does not throw)
ParseOk(str) ==
  /\ Positions(str, "|") # {}
  /\ BucketOk(SplitPart0(str))
  /\ DecParseOk(SplitPart1(str))

\* LexoRank.parse
Parse(str) == [bucket |-> BucketFrom(SplitPart0(str)), decimal |-> DecParse(SplitPart1(str))]

\* LexoRank constructor + toString: bucket.format() + '|' + formatDecimal(decimal)
RankToString(r) == << toChar(r.bucket), "|" >> \o formatDecimal(r.decimal)

LexoRank(bucket, decimal) == [bucket |-> bucket, decimal |-> decimal]

\* LexoRank.min / LexoRank.max / LexoRank.middle
RankMin == LexoRank(0, MIN_DECIMAL)
RankMax == LexoRank(0, MAX_DECIMAL)

\* LexoRank.prototype.between: throws on different buckets and on equal values
BetweenOk(r, other) == r.bucket = other.bucket /\ DecCmp(r.decimal, other.decimal) # 0

between(r, other) ==
  LexoRank(r.bucket,
           DecBetween(IF DecCmp(r.decimal, other.decimal) > 0 THEN other.decimal ELSE r.decimal,
                      IF DecCmp(r.decimal, other.decimal) > 0 THEN r.decimal ELSE other.decimal))

middle == between(RankMin, RankMax)

\* genPrev once floor(decimal) - 8 is known
PrevFrom(r, nextDecimal) ==
  IF DecCmp(nextDecimal, MIN_DECIMAL) <= 0
  THEN LexoRank(r.bucket, DecBetween(MIN_DECIMAL, r.decimal))
  ELSE LexoRank(r.bucket, nextDecimal)

\* LexoRank.prototype.genPrev
genPrev(r) ==
  IF DecCmp(r.decimal, MAX_DECIMAL) = 0 THEN LexoRank(r.bucket, INITIAL_MAX_DECIMAL)
  ELSE PrevFrom(r, DecSub(DecFrom(DecFloor(r.decimal)), EIGHT_DECIMAL))

\* genNext once ceil(decimal) + 8 is known
NextFrom(r, nextDecimal) ==
  IF DecCmp(nextDecimal, MAX_DECIMAL) >= 0
  THEN LexoRank(r.bucket, DecBetween(r.decimal, MAX_DECIMAL))
  ELSE LexoRank(r.bucket, nextDecimal)

\* LexoRank.prototype.genNext
genNext(r) ==
  IF DecCmp(r.decimal, MIN_DECIMAL) = 0 THEN LexoRank(r.bucket, INITIAL_MIN_DECIMAL)
  ELSE NextFrom(r, DecAdd(DecFrom(DecCeil(r.decimal)), EIGHT_DECIMAL))

(***************************************************************************)
(* calculateNewRank                                                        *)
(***************************************************************************)

\* An optional string: << >> is undefined, << s >> is the string s.
None == << >>
Some(s) == << s >>

\* JavaScript truthiness of string | undefined: undefined and "" are falsy
Truthy(opt) == opt # None /\ opt[1] # << >>

Thrown     == [kind |-> "throw", str |-> << >>]
Undefined  == [kind |-> "undefined", str |-> << >>]
\* a result formatted from the decimal alone, without the bucket
Ranked_NoBucket(r) == [kind |-> "rank", str |-> DecFormat(r.decimal)]

Ranked(r)  == [kind |-> "rank", str |-> RankToString(r)]

\* calculateNewRank with the beforeRank branch tested first: genPrev also when
\* both ranks are supplied
calculateNewRank_BeforeFirst(beforeRank, afterRank) ==
  IF Truthy(beforeRank) /\ ~ParseOk(beforeRank[1]) THEN Thrown
  ELSE IF Truthy(afterRank) /\ ~ParseOk(afterRank[1]) THEN Thrown
  ELSE IF Truthy(beforeRank) THEN Ranked(genPrev(Parse(beforeRank[1])))
  ELSE IF Truthy(afterRank) THEN Ranked(genNext(Parse(afterRank[1])))
  ELSE Undefined

\* calculateNewRank falling back to LexoRank.middle() when no rank is supplied
calculateNewRank_MiddleDefault(beforeRank, afterRank) ==
  IF Truthy(beforeRank) /\ ~ParseOk(beforeRank[1]) THEN Thrown
  ELSE IF Truthy(afterRank) /\ ~ParseOk(afterRank[1]) THEN Thrown
  ELSE IF Truthy(beforeRank) /\ Truthy(afterRank)
       THEN IF BetweenOk(Parse(beforeRank[1]), Parse(afterRank[1]))
            THEN Ranked(between(Parse(beforeRank[1]), Parse(afterRank[1])))
            ELSE Thrown
  ELSE IF Truthy(beforeRank) THEN Ranked(genPrev(Parse(beforeRank[1])))
  ELSE IF Truthy(afterRank) THEN Ranked(genNext(Parse(afterRank[1])))
  ELSE Ranked(middle)

calculateNewRank(beforeRank, afterRank) ==
  IF Truthy(beforeRank) /\ ~ParseOk(beforeRank[1]) THEN Thrown
  ELSE IF Truthy(afterRank) /\ ~ParseOk(afterRank[1]) THEN Thrown
  ELSE IF Truthy(beforeRank) /\ Truthy(afterRank)
       THEN IF BetweenOk(Parse(beforeRank[1]), Parse(afterRank[1]))
            THEN Ranked(between(Parse(beforeRank[1]), Parse(afterRank[1])))
            ELSE Thrown
  ELSE IF Truthy(beforeRank) THEN Ranked(genPrev(Parse(beforeRank[1])))
  ELSE IF Truthy(afterRank) THEN Ranked(genNext(Parse(afterRank[1])))
  ELSE Undefined

(***************************************************************************)
(* State                                                                   *)
(***************************************************************************)

VARIABLES
  subjects,   \* rows of table subjects: [id, title, rank]
  topics,     \* rows of table topics:   [id, subject_id, title, rank]
  articles,   \* rows of table articles: [id, topic_id, title, file_path, rank]
  seqs,       \* next row id of each table and next file path
  remote,     \* file paths present in the GitHub repository
  issued,     \* a login has issued a token signed with JWT_SECRET
  req,        \* the request waiting to be handled, if one is held back
  seen,       \* the request answered last: under /api/admin/* or not, its token cookie
  resp,       \* the last response: status and the rank / newRank of the body
  ghlog,      \* the GitHub helper calls of the request answered last, in order
  frames,     \* the local variables of the requests and helper calls in progress
  chain       \* the ranks a client inserting at one gap has received, oldest first

vars == << subjects, topics, articles, seqs, remote, issued, req, seen, resp, ghlog, frames, chain >>

db == << subjects, topics, articles >>

(***************************************************************************)
(* Authentication (src/auth.ts)                                            *)
(***************************************************************************)

NoToken      == [present |-> FALSE, key |-> "", expired |-> FALSE]
Signed(k, e) == [present |-> TRUE, key |-> k, expired |-> e]

\* hono/jwt verify: the signature matches the secret and exp has not passed
verify(token, secret) == token.key = secret /\ ~token.expired

\* jwtAuth: TRUE when next() runs, FALSE when the middleware answers 401
\* jwtAuth that calls next() for any request carrying a token cookie
jwtAuth_PresentOnly(secret, token) == token.present

jwtAuth(secret, token) == token.present /\ verify(token, secret)

\* app.use('/api/admin/*'): the middleware with c.env.JWT_SECRET
AdminGuard(token) == jwtAuth("JWT_SECRET", token)

(***************************************************************************)
(* Requests and responses                                                  *)
(***************************************************************************)

\* a reorder request: the route, the cookie and the validated JSON body
Req(op, tok, id, before, after) ==
  [op |-> op, tok |-> tok, id |-> id, before |-> before, after |-> after]

NoReq == Req("none", NoToken, 0, None, None)

\* what the app saw of a request: whether its path is under /api/admin/*
\* (login and logout are registered before the guard), and its token cookie
Seen(guarded, tok) == [guarded |-> guarded, token |-> tok]

\* no response yet
NoResp == [status |-> 0, rank |-> None, error |-> ""]

\* c.json(...): the status, the rank / newRank property and the error property
\* of the body ("" when the body has none)
Respond(status, rank, error) ==
  /\ resp' = [status |-> status, rank |-> rank, error |-> error]
  /\ UNCHANGED req

\* the answer of jwtAuth when it does not call next()
Unauthorized(token) ==
  Respond(401, None, IF token.present THEN "Unauthorized: Invalid token"
                     ELSE "Unauthorized: No token provided")

\* ORDER BY rank DESC LIMIT 1 over the selected rows
SelectTail(rows) ==
  IF rows = {} THEN None
  ELSE Some(CHOOSE x \in { w.rank : w \in rows } :
              \A y \in { w.rank : w \in rows } : ~StrLess(x, y))

\* lastRank ? lastRank.genNext() : LexoRank.middle(), with LexoRank.parse of the tail
appendRank(tail) ==
  IF tail = None THEN Ranked(middle)
  ELSE IF ~ParseOk(tail[1]) THEN Thrown
  ELSE Ranked(genNext(Parse(tail[1])))

\* UPDATE <table> SET rank = ? without the WHERE clause
SetRank_EveryRow(rows, id, rank) ==
  { [w EXCEPT !.rank = rank] : w \in rows }

\* UPDATE <table> SET rank = ? WHERE id = ?
SetRank(rows, id, rank) ==
  { IF w.id = id THEN [w EXCEPT !.rank = rank] ELSE w : w \in rows }

(***************************************************************************)
(* Login and logout                                                        *)
(***************************************************************************)

loginHandler(credsOk) ==
  /\ seen' = Seen(FALSE, NoToken)
  /\ ghlog' = << >>
  /\ issued' = (issued \/ credsOk)
  /\ Respond(IF credsOk THEN 200 ELSE 401, None, IF credsOk THEN "" ELSE "Invalid credentials")
  /\ UNCHANGED << subjects, topics, articles, seqs, remote >>

\* logoutHandler of a server that keeps sessions and drops the session of
\* the login: the token the login issued is no longer usable
logoutHandler_Revokes(tok) ==
  /\ seen' = Seen(FALSE, tok)
  /\ ghlog' = << >>
  /\ issued' = FALSE
  /\ Respond(200, None, "")
  /\ UNCHANGED << subjects, topics, articles, seqs, remote >>

logoutHandler(tok) ==
  /\ seen' = Seen(FALSE, tok)
  /\ ghlog' = << >>
  /\ Respond(200, None, "")
  /\ UNCHANGED << subjects, topics, articles, seqs, remote, issued >>

(***************************************************************************)
(* Subject admin routes                                                    *)
(***************************************************************************)

CreateSubject(tok, title) ==
  /\ seen' = Seen(TRUE, tok)
  /\ ghlog' = << >>
  /\ UNCHANGED << topics, articles, remote, issued >>
  /\ IF ~AdminGuard(tok)
     THEN Unauthorized(tok) /\ UNCHANGED << subjects, seqs >>
     ELSE IF title = ""
     THEN Respond(400, None, "ZodError") /\ UNCHANGED << subjects, seqs >>
     ELSE \E newRank \in { appendRank(SelectTail(subjects)) } :
          IF newRank.kind = "throw"
          THEN Respond(500, None, "Internal Server Error") /\ UNCHANGED << subjects, seqs >>
          ELSE /\ subjects' = subjects \cup
                    { [id |-> seqs.subjects, title |-> title, rank |-> newRank.str] }
               /\ seqs' = [seqs EXCEPT !.subjects = @ + 1]
               /\ Respond(201, Some(newRank.str), "")

UpdateSubject(tok, id, title) ==
  /\ seen' = Seen(TRUE, tok)
  /\ ghlog' = << >>
  /\ UNCHANGED << topics, articles, seqs, remote, issued >>
  /\ IF ~AdminGuard(tok)
     THEN Unauthorized(tok) /\ UNCHANGED subjects
     ELSE IF title = ""
     THEN Respond(400, None, "ZodError") /\ UNCHANGED subjects
     ELSE /\ subjects' = { IF w.id = id THEN [w EXCEPT !.title = title] ELSE w : w \in subjects }
          /\ Respond(200, None, "")

ReorderSubject(tok, id, beforeRank, afterRank) ==
  /\ seen' = Seen(TRUE, tok)
  /\ ghlog' = << >>
  /\ UNCHANGED << topics, articles, seqs, remote, issued >>
  /\ IF ~AdminGuard(tok)
     THEN Unauthorized(tok) /\ UNCHANGED subjects
     ELSE \E newRank \in { calculateNewRank(beforeRank, afterRank) } :
          IF newRank.kind = "throw"
          THEN Respond(500, None, "Internal Server Error") /\ UNCHANGED subjects
          ELSE IF newRank.kind = "undefined"
          THEN Respond(400, None, "Invalid reorder request") /\ UNCHANGED subjects
          ELSE /\ subjects' = SetRank(subjects, id, newRank.str)
               /\ Respond(200, Some(newRank.str), "")

DeleteSubject(tok, id) ==
  /\ seen' = Seen(TRUE, tok)
  /\ ghlog' = << >>
  /\ UNCHANGED << topics, articles, seqs, remote, issued >>
  /\ IF ~AdminGuard(tok)
     THEN Unauthorized(tok) /\ UNCHANGED subjects
     ELSE /\ subjects' = { w \in subjects : w.id # id }
          /\ Respond(200, None, "")

(***************************************************************************)
(* Topic admin routes                                                      *)
(***************************************************************************)

CreateTopic(tok, title, subjectId) ==
  /\ seen' = Seen(TRUE, tok)
  /\ ghlog' = << >>
  /\ UNCHANGED << subjects, articles, remote, issued >>
  /\ IF ~AdminGuard(tok)
     THEN Unauthorized(tok) /\ UNCHANGED << topics, seqs >>
     ELSE IF title = ""
     THEN Respond(400, None, "ZodError") /\ UNCHANGED << topics, seqs >>
     ELSE \E newRank \in { appendRank(SelectTail({ w \in topics : w.subject_id = subjectId })) } :
          IF newRank.kind = "throw"
          THEN Respond(500, None, "Internal Server Error") /\ UNCHANGED << topics, seqs >>
          ELSE /\ topics' = topics \cup
                    { [id |-> seqs.topics, subject_id |-> subjectId, title |-> title,
                       rank |-> newRank.str] }
               /\ seqs' = [seqs EXCEPT !.topics = @ + 1]
               /\ Respond(201, Some(newRank.str), "")

\* PUT /api/admin/topics/:id that also resets the rank of the row
UpdateTopic_ResetRank(tok, id, title, subjectId) ==
  /\ seen' = Seen(TRUE, tok)
  /\ ghlog' = << >>
  /\ UNCHANGED << subjects, articles, seqs, remote, issued >>
  /\ IF ~AdminGuard(tok)
     THEN Unauthorized(tok) /\ UNCHANGED topics
     ELSE IF title = ""
     THEN Respond(400, None, "ZodError") /\ UNCHANGED topics
     ELSE /\ topics' = { IF w.id = id
                         THEN [w EXCEPT !.title = title, !.subject_id = subjectId,
                                        !.rank = RankToString(genNext(middle))]
                         ELSE w : w \in topics }
          /\ Respond(200, None, "")

UpdateTopic(tok, id, title, subjectId) ==
  /\ seen' = Seen(TRUE, tok)
  /\ ghlog' = << >>
  /\ UNCHANGED << subjects, articles, seqs, remote, issued >>
  /\ IF ~AdminGuard(tok)
     THEN Unauthorized(tok) /\ UNCHANGED topics
     ELSE IF title = ""
     THEN Respond(400, None, "ZodError") /\ UNCHANGED topics
     ELSE /\ topics' = { IF w.id = id
                         THEN [w EXCEPT !.title = title, !.subject_id = subjectId]
                         ELSE w : w \in topics }
          /\ Respond(200, None, "")

ReorderTopic(tok, id, beforeRank, afterRank) ==
  /\ seen' = Seen(TRUE, tok)
  /\ ghlog' = << >>
  /\ UNCHANGED << subjects, articles, seqs, remote, issued >>
  /\ IF ~AdminGuard(tok)
     THEN Unauthorized(tok) /\ UNCHANGED topics
     ELSE \E newRank \in { calculateNewRank(beforeRank, afterRank) } :
          IF newRank.kind = "throw"
          THEN Respond(500, None, "Internal Server Error") /\ UNCHANGED topics
          ELSE IF newRank.kind = "undefined"
          THEN Respond(400, None, "Invalid reorder request") /\ UNCHANGED topics
          ELSE /\ topics' = SetRank(topics, id, newRank.str)
               /\ Respond(200, Some(newRank.str), "")

DeleteTopic(tok, id) ==
  /\ seen' = Seen(TRUE, tok)
  /\ ghlog' = << >>
  /\ UNCHANGED << subjects, articles, seqs, remote, issued >>
  /\ IF ~AdminGuard(tok)
     THEN Unauthorized(tok) /\ UNCHANGED topics
     ELSE /\ topics' = { w \in topics : w.id # id }
          /\ Respond(200, None, "")

(***************************************************************************)
(* GitHub helpers (src/github.ts); fault is the fetch that GitHub fails    *)
(***************************************************************************)

\* Response.ok
ResponseOk(status) == status \in 200..299

\* status GitHub answers to GET /contents/<path>
GhGetStatus(path, fault) ==
  IF fault = "fail1" THEN 500 ELSE IF path \in remote THEN 200 ELSE 404

\* status GitHub answers to the PUT of createGitHubFile
GhCreateStatus(fault) == IF fault = "fail1" THEN 500 ELSE 201

\* status GitHub answers to the PUT of updateGitHubFile / the DELETE
GhWriteStatus(fault) == IF fault = "fail2" THEN 500 ELSE 200

\* createGitHubFile, updateGitHubFile, deleteGitHubFile: throw unless response.ok
createGitHubFile(status) == IF ResponseOk(status) THEN "ok" ELSE "throw"
updateGitHubFile(status) == IF ResponseOk(status) THEN "ok" ELSE "throw"
deleteGitHubFile(status) == IF ResponseOk(status) THEN "ok" ELSE "throw"

\* getFileSha that takes every failed response for a missing file
getFileSha_NullOnError(status) == IF ResponseOk(status) THEN "sha" ELSE "null"

\* getFileSha: the sha, null on 404, throws on any other failure
getFileSha(status) ==
  IF ResponseOk(status) THEN "sha" ELSE IF status = 404 THEN "null" ELSE "throw"

(***************************************************************************)
(* Article admin routes                                                    *)
(***************************************************************************)

\* one call of a helper: the status GitHub answered and how the helper ended
GhCall(fn, status, outcome) == [fn |-> fn, status |-> status, outcome |-> outcome]

CreateArticle(tok, title, topicId, useMockGH, fault) ==
  LET filePath == seqs.paths
      created  == createGitHubFile(GhCreateStatus(fault))
      pushed   == useMockGH \/ created = "ok"
  IN  /\ seen' = Seen(TRUE, tok)
      /\ UNCHANGED << subjects, topics, issued >>
      /\ IF ~AdminGuard(tok)
         THEN Unauthorized(tok) /\ ghlog' = << >> /\ UNCHANGED << articles, seqs, remote >>
         ELSE IF title = ""
         THEN Respond(400, None, "ZodError") /\ ghlog' = << >>
              /\ UNCHANGED << articles, seqs, remote >>
         ELSE /\ ghlog' = IF useMockGH THEN << >>
                          ELSE << GhCall("createGitHubFile", GhCreateStatus(fault), created) >>
              /\ IF ~pushed
                 THEN Respond(500, None, "Failed to create article")
                      /\ UNCHANGED << articles, seqs, remote >>
                 ELSE /\ remote' = IF useMockGH THEN remote ELSE remote \cup { filePath }
                      /\ \E newRank \in { appendRank(SelectTail({ w \in articles : w.topic_id = topicId })) } :
                           IF newRank.kind = "throw"
                           THEN /\ Respond(500, None, "Failed to create article")
                                /\ articles' = articles
                                /\ seqs' = IF useMockGH THEN seqs ELSE [seqs EXCEPT !.paths = @ + 1]
                           ELSE /\ articles' = articles \cup
                                     { [id |-> seqs.articles, topic_id |-> topicId, title |-> title,
                                        file_path |-> filePath, rank |-> newRank.str] }
                                /\ seqs' = [seqs EXCEPT !.articles = @ + 1, !.paths = @ + 1]
                                /\ Respond(201, Some(newRank.str), "")

\* PUT /api/admin/articles/:id that takes a file absent from GitHub for one
\* with nothing to push and goes on to the UPDATE of the row
UpdateArticle_MissingFileOk(tok, id, title, topicId, useMockGH, fault) ==
  LET found    == { w \in articles : w.id = id }
      filePath == (CHOOSE w \in found : TRUE).file_path
      fileSha  == getFileSha(GhGetStatus(filePath, fault))
      updated  == updateGitHubFile(GhWriteStatus(fault))
  IN  /\ seen' = Seen(TRUE, tok)
      /\ UNCHANGED << subjects, topics, seqs, remote, issued >>
      /\ IF ~AdminGuard(tok)
         THEN Unauthorized(tok) /\ ghlog' = << >> /\ UNCHANGED articles
         ELSE IF title = ""
         THEN Respond(400, None, "ZodError") /\ ghlog' = << >> /\ UNCHANGED articles
         ELSE IF found = {}
         THEN Respond(404, None, "Article not found.") /\ ghlog' = << >> /\ UNCHANGED articles
         ELSE /\ ghlog' = IF useMockGH THEN << >>
                          ELSE << GhCall("getFileSha", GhGetStatus(filePath, fault), fileSha) >>
                               \o (IF fileSha = "sha"
                                   THEN << GhCall("updateGitHubFile", GhWriteStatus(fault), updated) >>
                                   ELSE << >>)
              /\ IF ~useMockGH /\ fileSha = "throw"
                 THEN Respond(500, None, "Failed to update article") /\ UNCHANGED articles
                 ELSE IF ~useMockGH /\ fileSha = "sha" /\ updated = "throw"
                 THEN Respond(500, None, "Failed to update article") /\ UNCHANGED articles
                 ELSE /\ articles' = { IF w.id = id
                                       THEN [w EXCEPT !.title = title, !.topic_id = topicId]
                                       ELSE w : w \in articles }
                      /\ Respond(200, None, "")

UpdateArticle(tok, id, title, topicId, useMockGH, fault) ==
  LET found    == { w \in articles : w.id = id }
      filePath == (CHOOSE w \in found : TRUE).file_path
      fileSha  == getFileSha(GhGetStatus(filePath, fault))
      updated  == updateGitHubFile(GhWriteStatus(fault))
  IN  /\ seen' = Seen(TRUE, tok)
      /\ UNCHANGED << subjects, topics, seqs, remote, issued >>
      /\ IF ~AdminGuard(tok)
         THEN Unauthorized(tok) /\ ghlog' = << >> /\ UNCHANGED articles
         ELSE IF title = ""
         THEN Respond(400, None, "ZodError") /\ ghlog' = << >> /\ UNCHANGED articles
         ELSE IF found = {}
         THEN Respond(404, None, "Article not found.") /\ ghlog' = << >> /\ UNCHANGED articles
         ELSE /\ ghlog' = IF useMockGH THEN << >>
                          ELSE << GhCall("getFileSha", GhGetStatus(filePath, fault), fileSha) >>
                               \o (IF fileSha = "sha"
                                   THEN << GhCall("updateGitHubFile", GhWriteStatus(fault), updated) >>
                                   ELSE << >>)
              /\ IF ~useMockGH /\ fileSha = "throw"
                 THEN Respond(500, None, "Failed to update article") /\ UNCHANGED articles
                 ELSE IF ~useMockGH /\ fileSha = "null"
                 THEN Respond(404, None, "GitHub file not found for article.") /\ UNCHANGED articles
                 ELSE IF ~useMockGH /\ updated = "throw"
                 THEN Respond(500, None, "Failed to update article") /\ UNCHANGED articles
                 ELSE /\ articles' = { IF w.id = id
                                       THEN [w EXCEPT !.title = title, !.topic_id = topicId]
                                       ELSE w : w \in articles }
                      /\ Respond(200, None, "")

ReorderArticle(tok, id, beforeRank, afterRank) ==
  /\ seen' = Seen(TRUE, tok)
  /\ ghlog' = << >>
  /\ UNCHANGED << subjects, topics, seqs, remote, issued >>
  /\ IF ~AdminGuard(tok)
     THEN Unauthorized(tok) /\ UNCHANGED articles
     ELSE \E newRank \in { calculateNewRank(beforeRank, afterRank) } :
          IF newRank.kind = "throw"
          THEN Respond(500, None, "Internal Server Error") /\ UNCHANGED articles
          ELSE IF newRank.kind = "undefined"
          THEN Respond(400, None, "Invalid reorder request") /\ UNCHANGED articles
          ELSE /\ articles' = SetRank(articles, id, newRank.str)
               /\ Respond(200, Some(newRank.str), "")

\* DELETE /api/admin/articles/:id that deletes the row before it looks at
\* the outcome of the GitHub calls
DeleteArticle_RowFirst(tok, id, useMockGH, fault) ==
  LET found    == { w \in articles : w.id = id }
      filePath == (CHOOSE w \in found : TRUE).file_path
      fileSha  == getFileSha(GhGetStatus(filePath, fault))
      deleted  == deleteGitHubFile(GhWriteStatus(fault))
      failed   == ~useMockGH /\ (fileSha = "throw" \/ (fileSha = "sha" /\ deleted = "throw"))
  IN  /\ seen' = Seen(TRUE, tok)
      /\ UNCHANGED << subjects, topics, seqs, issued >>
      /\ IF ~AdminGuard(tok)
         THEN Unauthorized(tok) /\ ghlog' = << >> /\ UNCHANGED << articles, remote >>
         ELSE IF found = {}
         THEN Respond(404, None, "Article record not found.") /\ ghlog' = << >>
              /\ UNCHANGED << articles, remote >>
         ELSE /\ ghlog' = IF useMockGH THEN << >>
                          ELSE << GhCall("getFileSha", GhGetStatus(filePath, fault), fileSha) >>
                               \o (IF fileSha = "sha"
                                   THEN << GhCall("deleteGitHubFile", GhWriteStatus(fault), deleted) >>
                                   ELSE << >>)
              /\ articles' = { w \in articles : w.id # id }
              /\ remote' = IF ~useMockGH /\ fileSha = "sha" /\ deleted = "ok"
                           THEN remote \ { filePath } ELSE remote
              /\ IF failed THEN Respond(500, None, "Failed to delete article")
                 ELSE Respond(200, None, "")

DeleteArticle(tok, id, useMockGH, fault) ==
  LET found    == { w \in articles : w.id = id }
      filePath == (CHOOSE w \in found : TRUE).file_path
      fileSha  == getFileSha(GhGetStatus(filePath, fault))
      deleted  == deleteGitHubFile(GhWriteStatus(fault))
  IN  /\ seen' = Seen(TRUE, tok)
      /\ UNCHANGED << subjects, topics, seqs, issued >>
      /\ IF ~AdminGuard(tok)
         THEN Unauthorized(tok) /\ ghlog' = << >> /\ UNCHANGED << articles, remote >>
         ELSE IF found = {}
         THEN Respond(404, None, "Article record not found.") /\ ghlog' = << >>
              /\ UNCHANGED << articles, remote >>
         ELSE /\ ghlog' = IF useMockGH THEN << >>
                          ELSE << GhCall("getFileSha", GhGetStatus(filePath, fault), fileSha) >>
                               \o (IF fileSha = "sha"
                                   THEN << GhCall("deleteGitHubFile", GhWriteStatus(fault), deleted) >>
                                   ELSE << >>)
              /\ IF ~useMockGH /\ fileSha = "throw"
                 THEN Respond(500, None, "Failed to delete article")
                      /\ UNCHANGED << articles, remote >>
                 ELSE IF ~useMockGH /\ fileSha = "sha" /\ deleted = "throw"
                 THEN Respond(500, None, "Failed to delete article")
                      /\ UNCHANGED << articles, remote >>
                 ELSE /\ remote' = IF ~useMockGH /\ fileSha = "sha" THEN remote \ { filePath }
                                   ELSE remote
                      /\ articles' = { w \in articles : w.id # id }
                      /\ Respond(200, None, "")

(***************************************************************************)
(* Bounds and inputs                                                       *)
(***************************************************************************)

\* rows ever created in one table
MaxIds == 2

\* articles ever created
MaxArticles == 1

\* parent ids named by topic and article requests
ParentIds == { 1, 2 }

\* rank strings the requests carry: those of LexoRank.middle(), of its
\* genNext() and of LexoRank.max()
MiddleStr == << "0", "|", "h", "z", "z", "z", "z", "z", ":" >>
NextStr   == << "0", "|", "i", "0", "0", "0", "0", "7", ":" >>
MaxStr    == << "0", "|", "z", "z", "z", "z", "z", "z", ":" >>

\* a row written directly into the database, as the integration tests do
SeedRank == << "a" >>

SeedSubject == [id |-> 1, title |-> "a", rank |-> SeedRank]

GoodToken == Signed("JWT_SECRET", FALSE)

\* the cookie values a client can send
Tokens ==
  { NoToken, Signed("other", FALSE) }
    \cup (IF issued THEN { GoodToken, Signed("JWT_SECRET", TRUE) } ELSE {})

Titles == { "", "a" }

\* beforeRank / afterRank values of the reorder requests of Spec
SysRanks == { None, Some(MaxStr) }

(***************************************************************************)
(* The system: any sequence of admin requests.  No handler reads or writes *)
(* a table other than its own, so rows are explored one table at a time.   *)
(***************************************************************************)

Init ==
  /\ subjects \in { {}, { SeedSubject } }
  /\ articles = {}
  /\ topics = {}
  /\ seqs = [subjects |-> Cardinality(subjects) + 1, topics |-> 1,
             articles |-> 1, paths |-> 1]
  /\ remote = {}
  /\ issued = FALSE
  /\ req = NoReq
  /\ seen = Seen(FALSE, NoToken)
  /\ resp = NoResp
  /\ ghlog = << >>
  /\ frames = << >>
  /\ chain = << >>

\* A request the middleware rejects is answered before its body is parsed:
\* one body stands for all of them.
Body(tok, values) == IF AdminGuard(tok) THEN values ELSE { CHOOSE v \in values : TRUE }

SubjectsUntouched == subjects = {} /\ seqs.subjects = 1
TopicsUntouched   == topics = {} /\ seqs.topics = 1
ArticlesUntouched == articles = {} /\ seqs.articles = 1 /\ seqs.paths = 1 /\ remote = {}

Login ==
  /\ UNCHANGED << frames, chain >>
  /\ \E credsOk \in BOOLEAN : loginHandler(credsOk)
Logout ==
  /\ UNCHANGED << frames, chain >>
  /\ \E tok \in Tokens : logoutHandler(tok)

SubjectCreate ==
  /\ TopicsUntouched /\ ArticlesUntouched /\ seqs.subjects <= MaxIds
  /\ UNCHANGED << frames, chain >>
  /\ \E tok \in Tokens : \E t \in Body(tok, Titles) : CreateSubject(tok, t)
SubjectUpdate ==
  /\ UNCHANGED << frames, chain >>
  /\ \E tok \in Tokens : \E id \in Body(tok, 1..MaxIds), t \in Body(tok, Titles) :
       UpdateSubject(tok, id, t)
SubjectReorder ==
  /\ UNCHANGED << frames, chain >>
  /\ \E tok \in Tokens : \E id \in Body(tok, 1..MaxIds), b \in Body(tok, SysRanks),
                            a \in Body(tok, SysRanks) :
       ReorderSubject(tok, id, b, a)
SubjectDelete ==
  /\ UNCHANGED << frames, chain >>
  /\ \E tok \in Tokens : \E id \in Body(tok, 1..MaxIds) : DeleteSubject(tok, id)

TopicCreate ==
  /\ SubjectsUntouched /\ ArticlesUntouched /\ seqs.topics <= MaxIds
  /\ UNCHANGED << frames, chain >>
  /\ \E tok \in Tokens : \E t \in Body(tok, Titles), p \in Body(tok, ParentIds) :
       CreateTopic(tok, t, p)
TopicUpdate ==
  /\ UNCHANGED << frames, chain >>
  /\ \E tok \in Tokens : \E id \in Body(tok, 1..MaxIds), t \in Body(tok, Titles),
                            p \in Body(tok, ParentIds) :
       UpdateTopic(tok, id, t, p)
TopicReorder ==
  /\ UNCHANGED << frames, chain >>
  /\ \E tok \in Tokens : \E id \in Body(tok, 1..MaxIds), b \in Body(tok, SysRanks),
                            a \in Body(tok, SysRanks) :
       ReorderTopic(tok, id, b, a)
TopicDelete ==
  /\ UNCHANGED << frames, chain >>
  /\ \E tok \in Tokens : \E id \in Body(tok, 1..MaxIds) : DeleteTopic(tok, id)

\* the x-test-mock-gh header and, without it, the fetch that GitHub fails
GhModes(faults) == { << TRUE, "ok" >> } \cup { << FALSE, f >> : f \in faults }

ArticleCreate ==
  /\ SubjectsUntouched /\ TopicsUntouched
  /\ seqs.articles <= MaxArticles /\ seqs.paths <= MaxArticles
  /\ UNCHANGED << frames, chain >>
  /\ \E tok \in Tokens : \E t \in Body(tok, Titles), p \in Body(tok, ParentIds),
                            g \in Body(tok, GhModes({ "ok", "fail1" })) :
       CreateArticle(tok, t, p, g[1], g[2])
ArticleUpdate ==
  /\ UNCHANGED << frames, chain >>
  /\ \E tok \in Tokens : \E id \in Body(tok, 1..(MaxArticles)), t \in Body(tok, Titles),
                            p \in Body(tok, ParentIds),
                            g \in Body(tok, GhModes({ "ok", "fail1", "fail2" })) :
       UpdateArticle(tok, id, t, p, g[1], g[2])
ArticleReorder ==
  /\ UNCHANGED << frames, chain >>
  /\ \E tok \in Tokens : \E id \in Body(tok, 1..(MaxArticles)), b \in Body(tok, SysRanks),
                            a \in Body(tok, SysRanks) :
       ReorderArticle(tok, id, b, a)
ArticleDelete ==
  /\ UNCHANGED << frames, chain >>
  /\ \E tok \in Tokens : \E id \in Body(tok, 1..(MaxArticles)),
                            g \in Body(tok, GhModes({ "ok", "fail1", "fail2" })) :
       DeleteArticle(tok, id, g[1], g[2])

Next ==
  \/ Login
  \/ Logout
  \/ SubjectCreate
  \/ SubjectUpdate
  \/ SubjectReorder
  \/ SubjectDelete
  \/ TopicCreate
  \/ TopicUpdate
  \/ TopicReorder
  \/ TopicDelete
  \/ ArticleCreate
  \/ ArticleUpdate
  \/ ArticleReorder
  \/ ArticleDelete

Spec == Init /\ [][Next]_vars

(***************************************************************************)
(* The rank computation alone: one reorder request, held back in req, is   *)
(* handled against a database of two rows per table                        *)
(***************************************************************************)

\* digits after the radix point in the enumerated rank strings
MaxFracLen == 2

IntParts ==
  { << "0", "0", "0", "0", "0", "0" >>, << "0", "0", "0", "0", "0", "1" >>,
    << "h", "z", "z", "z", "z", "z" >>, << "i", "0", "0", "0", "0", "0" >>,
    << "i", "0", "0", "0", "0", "1" >>, << "z", "z", "z", "z", "z", "z" >> }

FracDigits == { "0", "i", "z" }

RECURSIVE Fractions(_)
\* the digit strings of length 1..n over FracDigits
Fractions(n) ==
  IF n = 0 THEN {}
  ELSE { << d >> : d \in FracDigits }
       \cup { f \o << d >> : f \in Fractions(n - 1), d \in FracDigits }

\* bucket 0 rank strings: the integer part alone, with the radix point, with a fraction
WellFormed ==
  { << "0", "|" >> \o ip : ip \in IntParts }
    \cup { << "0", "|" >> \o ip \o << ":" >> : ip \in IntParts }
    \cup { << "0", "|" >> \o ip \o << ":" >> \o f : ip \in IntParts, f \in Fractions(MaxFracLen) }

\* strings outside the grammar, and a rank of another bucket
OddStrings ==
  { << >>,
    << "a" >>,
    << "0", "|", "H", "z", "z", "z", "z", "z", ":" >>,
    << "3", "|", "h", "z", "z", "z", "z", "z", ":" >>,
    << "0", "|", "h", "z", "z", ":", "z", "z", ":", "z" >>,
    << "1", "|", "h", "z", "z", "z", "z", "z", ":" >> }

RankInputs == { None } \cup { Some(x) : x \in WellFormed \cup OddStrings }

ReorderSubjectsOp == "POST /api/admin/subjects/reorder"
ReorderTopicsOp   == "POST /api/admin/topics/reorder"
ReorderArticlesOp == "POST /api/admin/articles/reorder"

RankSubjects ==
  { [id |-> 1, title |-> "a", rank |-> MiddleStr], [id |-> 2, title |-> "a", rank |-> NextStr] }
RankTopics ==
  { [id |-> 1, subject_id |-> 1, title |-> "a", rank |-> MiddleStr],
    [id |-> 2, subject_id |-> 1, title |-> "a", rank |-> NextStr] }
RankArticles ==
  { [id |-> 1, topic_id |-> 1, title |-> "a", file_path |-> 1, rank |-> MiddleStr],
    [id |-> 2, topic_id |-> 1, title |-> "a", file_path |-> 2, rank |-> NextStr] }

\* beforeRank / afterRank values of the topic and article requests
FewRanks == { None, Some(<< >>), Some(MiddleStr), Some(MaxStr) }

InitRank ==
  /\ subjects = RankSubjects
  /\ topics = RankTopics
  /\ articles = RankArticles
  /\ seqs = [subjects |-> 3, topics |-> 3, articles |-> 3, paths |-> 3]
  /\ remote = { 1, 2 }
  /\ issued = TRUE
  /\ req \in { Req(ReorderSubjectsOp, GoodToken, 1, b, a) : b \in RankInputs, a \in RankInputs }
             \cup { Req(op, GoodToken, 1, b, a) :
                      op \in { ReorderTopicsOp, ReorderArticlesOp },
                      b \in FewRanks, a \in FewRanks }
  /\ seen = Seen(FALSE, NoToken)
  /\ resp = NoResp
  /\ ghlog = << >>
  /\ frames = << >>
  /\ chain = << >>

HandleSubjectReorder ==
  /\ resp = NoResp /\ req.op = ReorderSubjectsOp
  /\ UNCHANGED << frames, chain >>
  /\ ReorderSubject(req.tok, req.id, req.before, req.after)

HandleTopicReorder ==
  /\ resp = NoResp /\ req.op = ReorderTopicsOp
  /\ UNCHANGED << frames, chain >>
  /\ ReorderTopic(req.tok, req.id, req.before, req.after)

HandleArticleReorder ==
  /\ resp = NoResp /\ req.op = ReorderArticlesOp
  /\ UNCHANGED << frames, chain >>
  /\ ReorderArticle(req.tok, req.id, req.before, req.after)

NextRank ==
  \/ HandleSubjectReorder
  \/ HandleTopicReorder
  \/ HandleArticleReorder

SpecRank == InitRank /\ [][NextRank]_vars

(***************************************************************************)
(* Repeated insertion at one gap: a client reorders row 1 with beforeRank   *)
(* b and afterRank the newRank of its previous request                      *)
(***************************************************************************)

\* insertions the client makes at the gap
MaxChain == 100

\* the ranks a and b the client starts from, a sorting before b
ChainStarts ==
  { << MiddleStr, NextStr >>,
    << << "0", "|", "h", "z", "z", "z", "z", "z" >>, << "0", "|", "i", "0", "0", "0", "0", "1" >> >>,
    << << "0", "|", "0", "0", "0", "0", "0", "0", ":" >>, MaxStr >>,
    << MiddleStr, << "0", "|", "h", "z", "z", "z", "z", "z", ":", "i" >> >>,
    << << "0", "|", "z", "z", "z", "z", "z", "y", ":", "z" >>, MaxStr >>,
    << << "0", "|", "h", "z", "z", "z", "z", "z" >>, MiddleStr >> }

InitChain ==
  /\ subjects = RankSubjects
  /\ topics = RankTopics
  /\ articles = RankArticles
  /\ seqs = [subjects |-> 3, topics |-> 3, articles |-> 3, paths |-> 3]
  /\ remote = { 1, 2 }
  /\ issued = TRUE
  /\ \E ab \in ChainStarts :
       /\ req = Req(ReorderSubjectsOp, GoodToken, 1, Some(ab[2]), Some(ab[1]))
       /\ chain = << ab[1] >>
  /\ seen = Seen(FALSE, NoToken)
  /\ resp = NoResp
  /\ ghlog = << >>
  /\ frames = << >>

\* the server answers the request the client has sent
ChainHandle ==
  /\ resp = NoResp /\ Len(chain) <= MaxChain
  /\ UNCHANGED << frames, chain >>
  /\ ReorderSubject(req.tok, req.id, req.before, req.after)

\* the client takes newRank from the 200 answer and sends the next request,
\* with the same beforeRank and the received rank as afterRank
ChainAdvance ==
  /\ resp.status = 200 /\ resp.rank # None
  /\ chain' = Append(chain, resp.rank[1])
  /\ req' = [req EXCEPT !.after = resp.rank]
  /\ resp' = NoResp
  /\ UNCHANGED << subjects, topics, articles, seqs, remote, issued, seen, ghlog, frames >>

NextChain ==
  \/ ChainHandle
  \/ ChainAdvance

SpecChain == InitChain /\ [][NextChain]_vars

(***************************************************************************)
(* Two requests in progress at once.  A handler runs up to its first await *)
(* of a database statement in one step; every statement is one step of the *)
(* database, and the statements of the two requests interleave freely.     *)
(***************************************************************************)

CreateSubjectsOp == "POST /api/admin/subjects"

\* the requests in progress
Slots == { 1, 2 }

\* the local variables of a handler: the request, the position in the handler
\* (read: not started; write: computed newRank, its INSERT or UPDATE pending;
\* done: answered), the tail it selected, its newRank and its answer
Frame(op, id, before, after) ==
  [op |-> op, tok |-> GoodToken, id |-> id, before |-> before, after |-> after,
   pc |-> "read", tail |-> None, newRank |-> None, status |-> 0]

\* c.json(...) of request p
Answer(p, status, rank, error) ==
  /\ frames' = [frames EXCEPT ![p].pc = "done", ![p].status = status, ![p].newRank = rank]
  /\ resp' = [status |-> status, rank |-> rank, error |-> error]

\* POST /api/admin/subjects up to the INSERT: the middleware, the SELECT of the
\* tail and the computation of newRank
CreateSubjectRead(p) ==
  /\ frames[p].pc = "read" /\ frames[p].op = CreateSubjectsOp
  /\ seen' = Seen(TRUE, frames[p].tok)
  /\ ghlog' = << >>
  /\ UNCHANGED << subjects, topics, articles, seqs, remote, issued, req, chain >>
  /\ IF ~AdminGuard(frames[p].tok)
     THEN Answer(p, 401, None, IF frames[p].tok.present THEN "Unauthorized: Invalid token"
                               ELSE "Unauthorized: No token provided")
     ELSE \E newRank \in { appendRank(SelectTail(subjects)) } :
          IF newRank.kind = "throw"
          THEN Answer(p, 500, None, "Internal Server Error")
          ELSE /\ frames' = [frames EXCEPT ![p].pc = "write", ![p].tail = SelectTail(subjects),
                                           ![p].newRank = Some(newRank.str)]
               /\ UNCHANGED resp

\* the INSERT of POST /api/admin/subjects and its answer
CreateSubjectWrite(p) ==
  /\ frames[p].pc = "write" /\ frames[p].op = CreateSubjectsOp
  /\ subjects' = subjects \cup
       { [id |-> seqs.subjects, title |-> "a", rank |-> frames[p].newRank[1]] }
  /\ seqs' = [seqs EXCEPT !.subjects = @ + 1]
  /\ Answer(p, 201, frames[p].newRank, "")
  /\ UNCHANGED << topics, articles, remote, issued, req, seen, ghlog, chain >>

\* a reorder route that keeps the rank answered last in a process-wide
\* variable and computes from it in place of the afterRank of the request
ReorderRead_LastRank(p) ==
  /\ frames[p].pc = "read" /\ frames[p].op # CreateSubjectsOp
  /\ seen' = Seen(TRUE, frames[p].tok)
  /\ ghlog' = << >>
  /\ UNCHANGED << subjects, topics, articles, seqs, remote, issued, req, chain >>
  /\ \E newRank \in { calculateNewRank(frames[p].before,
                        IF resp.rank # None THEN resp.rank ELSE frames[p].after) } :
       IF newRank.kind = "throw"
       THEN Answer(p, 500, None, "Internal Server Error")
       ELSE IF newRank.kind = "undefined"
       THEN Answer(p, 400, None, "Invalid reorder request")
       ELSE /\ frames' = [frames EXCEPT ![p].pc = "write", ![p].newRank = Some(newRank.str)]
            /\ UNCHANGED resp

\* a reorder route up to its UPDATE: the middleware and calculateNewRank
ReorderRead(p) ==
  /\ frames[p].pc = "read" /\ frames[p].op # CreateSubjectsOp
  /\ seen' = Seen(TRUE, frames[p].tok)
  /\ ghlog' = << >>
  /\ UNCHANGED << subjects, topics, articles, seqs, remote, issued, req, chain >>
  /\ IF ~AdminGuard(frames[p].tok)
     THEN Answer(p, 401, None, IF frames[p].tok.present THEN "Unauthorized: Invalid token"
                               ELSE "Unauthorized: No token provided")
     ELSE \E newRank \in { calculateNewRank(frames[p].before, frames[p].after) } :
          IF newRank.kind = "throw"
          THEN Answer(p, 500, None, "Internal Server Error")
          ELSE IF newRank.kind = "undefined"
          THEN Answer(p, 400, None, "Invalid reorder request")
          ELSE /\ frames' = [frames EXCEPT ![p].pc = "write", ![p].newRank = Some(newRank.str)]
               /\ UNCHANGED resp

\* the UPDATE of a reorder route, on the table of the route, and its answer
ReorderWrite(p) ==
  /\ frames[p].pc = "write" /\ frames[p].op # CreateSubjectsOp
  /\ subjects' = IF frames[p].op = ReorderSubjectsOp
                 THEN SetRank(subjects, frames[p].id, frames[p].newRank[1]) ELSE subjects
  /\ topics' = IF frames[p].op = ReorderTopicsOp
               THEN SetRank(topics, frames[p].id, frames[p].newRank[1]) ELSE topics
  /\ articles' = IF frames[p].op = ReorderArticlesOp
                 THEN SetRank(articles, frames[p].id, frames[p].newRank[1]) ELSE articles
  /\ Answer(p, 200, frames[p].newRank, "")
  /\ UNCHANGED << seqs, remote, issued, req, seen, ghlog, chain >>

\* beforeRank / afterRank values of the concurrent subject reorders
ConcRanks ==
  { None, Some(MiddleStr), Some(NextStr),
    Some(<< "0", "|", "i", "0", "0", "0", "0", "f", ":" >>) }

\* the requests: creates and reorders of subjects (row 3 does not exist),
\* and a reorder of a topic and of an article
ConcRequests ==
  { Frame(CreateSubjectsOp, 0, None, None) }
    \cup { Frame(ReorderSubjectsOp, id, b, a) : id \in 1..3, b \in ConcRanks, a \in ConcRanks }
    \cup { Frame(op, id, None, Some(NextStr)) :
             op \in { ReorderTopicsOp, ReorderArticlesOp }, id \in { 1, 3 } }

InitConc ==
  /\ subjects = RankSubjects
  /\ topics = RankTopics
  /\ articles = RankArticles
  /\ seqs = [subjects |-> 3, topics |-> 3, articles |-> 3, paths |-> 3]
  /\ remote = { 1, 2 }
  /\ issued = TRUE
  /\ req = NoReq
  /\ seen = Seen(FALSE, NoToken)
  /\ resp = NoResp
  /\ ghlog = << >>
  /\ chain = << >>
  /\ \E f1 \in ConcRequests, f2 \in ConcRequests : frames = << f1, f2 >>

ConcCreateRead   == \E p \in Slots : CreateSubjectRead(p)
ConcCreateWrite  == \E p \in Slots : CreateSubjectWrite(p)
ConcReorderRead  == \E p \in Slots : ReorderRead(p)
ConcReorderWrite == \E p \in Slots : ReorderWrite(p)

NextConc ==
  \/ ConcCreateRead
  \/ ConcCreateWrite
  \/ ConcReorderRead
  \/ ConcReorderWrite

SpecConc == InitConc /\ [][NextConc]_vars

(***************************************************************************)
(* The GitHub helpers alone: one call of a helper, GitHub answering with   *)
(* any status                                                              *)
(***************************************************************************)

\* the statuses GitHub answers with
HttpStatuses == (200..206) \cup (300..304) \cup (400..410) \cup { 422, 429 } \cup (500..504)

HelperNames == { "createGitHubFile", "getFileSha", "updateGitHubFile", "deleteGitHubFile" }

InitGh ==
  /\ subjects = {}
  /\ topics = {}
  /\ articles = {}
  /\ seqs = [subjects |-> 1, topics |-> 1, articles |-> 1, paths |-> 1]
  /\ remote = {}
  /\ issued = FALSE
  /\ req = NoReq
  /\ seen = Seen(FALSE, NoToken)
  /\ resp = NoResp
  /\ ghlog = << >>
  /\ chain = << >>
  /\ \E fn \in HelperNames, status \in HttpStatuses :
       frames = << [fn |-> fn, status |-> status] >>

\* the call in progress ends: the helper returns or throws
Returns(fn, outcome) ==
  /\ frames # << >> /\ frames[1].fn = fn
  /\ ghlog' = << GhCall(fn, frames[1].status, outcome) >>
  /\ frames' = << >>
  /\ UNCHANGED << subjects, topics, articles, seqs, remote, issued, req, seen, resp, chain >>

CreateFileReturns == Returns("createGitHubFile", createGitHubFile(frames[1].status))
FileShaReturns    == Returns("getFileSha", getFileSha(frames[1].status))
UpdateFileReturns == Returns("updateGitHubFile", updateGitHubFile(frames[1].status))
DeleteFileReturns == Returns("deleteGitHubFile", deleteGitHubFile(frames[1].status))

NextGh ==
  \/ CreateFileReturns
  \/ FileShaReturns
  \/ UpdateFileReturns
  \/ DeleteFileReturns

SpecGh == InitGh /\ [][NextGh]_vars

(***************************************************************************)
(* Properties of the rank computation (checked under SpecRank)             *)
(***************************************************************************)

\* A valid rank string: a bucket digit, a bar, six base-36 digits, then
\* nothing or a radix point followed by digits; its value is at most
\* LexoRank.max().
ValidRank(str) ==
  /\ Len(str) >= IntPartLen + 2
  /\ str[1] \in { "0", "1", "2" }
  /\ str[2] = "|"
  /\ \A i \in 3..(IntPartLen + 2) : IsDigitChar(str[i])
  /\ Len(str) > IntPartLen + 2 =>
       /\ str[IntPartLen + 3] = ":"
       /\ \A i \in (IntPartLen + 4)..Len(str) : IsDigitChar(str[i])
  /\ DecCmp(Parse(str).decimal, MAX_DECIMAL) <= 0

Supplied(opt) == opt # None

Handled == resp # NoResp

IsReorder == req.op \in { ReorderSubjectsOp, ReorderTopicsOp, ReorderArticlesOp }

\* the rank stored on row 1 of the table the request addresses
StoredRank ==
  LET rows == IF req.op = ReorderSubjectsOp THEN subjects
              ELSE IF req.op = ReorderTopicsOp THEN topics ELSE articles
  IN  (CHOOSE w \in rows : w.id = req.id).rank

RowsUntouched ==
  subjects = RankSubjects /\ topics = RankTopics /\ articles = RankArticles

\* a pair of valid ranks of one bucket, afterRank sorting before beforeRank
OrderedPair ==
  /\ Supplied(req.before) /\ Supplied(req.after)
  /\ ValidRank(req.before[1]) /\ ValidRank(req.after[1])
  /\ req.before[1][1] = req.after[1][1]
  /\ StrLess(req.after[1], req.before[1])

SameValue == DecCmp(Parse(req.before[1]).decimal, Parse(req.after[1]).decimal) = 0

StrictlyBetween ==
  /\ resp.status = 200
  /\ resp.rank # None
  /\ StrLess(req.after[1], resp.rank[1])
  /\ StrLess(resp.rank[1], req.before[1])

\* C1 as stated: for every pair of valid rank strings a < b of one bucket,
\* calculateNewRank(b, a) returns without error a rank m with a < m < b.
C1_AnyOrderedPair == (Handled /\ IsReorder /\ OrderedPair) => StrictlyBetween

\* C1 (amended): for every pair of valid rank strings a < b of one bucket that
\* denote different values, calculateNewRank(b, a) returns without error a
\* rank m with a < m < b under string comparison; for "0|hzzzzz" and
\* "0|i00001" too, and by longer mantissas where the integer parts are adjacent.
C1_Between == (Handled /\ IsReorder /\ OrderedPair /\ ~SameValue) => StrictlyBetween

\* the pair named by the claim has been handled
C1_Witness ==
  /\ Handled
  /\ req.after = Some(<< "0", "|", "h", "z", "z", "z", "z", "z" >>)
  /\ req.before = Some(<< "0", "|", "i", "0", "0", "0", "0", "1" >>)
  /\ resp.status = 200

\* C2: with only afterRank = a (valid) the new rank m has m > a, with only
\* beforeRank = b (valid) it has m < b; the request answers 200 and the row
\* with the given id stores m.
C2_OneSided ==
  /\ (Handled /\ IsReorder /\ ~Supplied(req.before) /\ Supplied(req.after)
        /\ ValidRank(req.after[1]))
       => /\ resp.status = 200 /\ resp.rank # None
          /\ StrLess(req.after[1], resp.rank[1])
          /\ StoredRank = resp.rank[1]
  /\ (Handled /\ IsReorder /\ Supplied(req.before) /\ ~Supplied(req.after)
        /\ ValidRank(req.before[1]))
       => /\ resp.status = 200 /\ resp.rank # None
          /\ StrLess(resp.rank[1], req.before[1])
          /\ StoredRank = resp.rank[1]

\* C3: with neither rank supplied the computation returns the canonical
\* middle rank and the reorder request answers 200 with that newRank.
C3_MiddleWhenNeither ==
  (Handled /\ IsReorder /\ ~Supplied(req.before) /\ ~Supplied(req.after))
    => resp.status = 200 /\ resp.rank = Some(RankToString(middle))

C7_InvertedRejected ==
  (Handled /\ IsReorder /\ Supplied(req.before) /\ Supplied(req.after)
     /\ ValidRank(req.before[1]) /\ ValidRank(req.after[1])
     /\ ~StrLess(req.after[1], req.before[1]))
    => resp.status \in 400..499 /\ resp.rank = None /\ RowsUntouched

\* C9 (reorder): a supplied beforeRank or afterRank outside the grammar, the
\* empty string included, ends the request in an error, yields no rank and
\* leaves every stored rank unchanged.
C9_MalformedFailsClosed ==
  (Handled /\ IsReorder
     /\ \/ (Supplied(req.before) /\ req.before[1] \in OddStrings /\ ~ValidRank(req.before[1]))
        \/ (Supplied(req.after) /\ req.after[1] \in OddStrings /\ ~ValidRank(req.after[1])))
    => resp.status >= 400 /\ resp.rank = None /\ RowsUntouched

\* the ranks of the rows the addressed table held when the request arrived
ScopeRanks == { MiddleStr, NextStr }

\* C8: a reorder request whose supplied ranks are not the ranks of two
\* adjacent items of the moved item's scope (a supplied rank belongs to no
\* item of the scope, or another item's rank lies between the two) is
\* rejected with a client error and no row is changed.
C8_NeighboursChecked ==
  (Handled /\ IsReorder
     /\ (Supplied(req.before) => ValidRank(req.before[1]))
     /\ (Supplied(req.after) => ValidRank(req.after[1]))
     /\ \/ Supplied(req.before) /\ req.before[1] \notin ScopeRanks
        \/ Supplied(req.after) /\ req.after[1] \notin ScopeRanks
        \/ /\ Supplied(req.before) /\ Supplied(req.after)
           /\ \E r \in ScopeRanks : StrLess(req.after[1], r) /\ StrLess(r, req.before[1]))
    => resp.status \in 400..499 /\ resp.rank = None /\ RowsUntouched

\* the string r parses where a later request uses it: as beforeRank alone,
\* as afterRank alone, and as the tail rank a create selects
Accepted(r) ==
  /\ \A pair \in { << Some(r), None >>, << None, Some(r) >> } :
       calculateNewRank(pair[1], pair[2]).kind = "rank"
  /\ appendRank(Some(r)).kind = "rank"

\* C16: every rank string calculateNewRank returns, and every rank string a
\* create stores (middle for an empty scope, genNext of the tail otherwise),
\* is accepted without a parse error as beforeRank or afterRank of a later
\* calculateNewRank call and as the tail rank of a later create.
C16_RoundTrip ==
  (Handled /\ resp.rank # None)
    => \A r \in { resp.rank[1], appendRank(Some(resp.rank[1])).str, appendRank(None).str } :
         Accepted(r)

\* a returned rank with a fraction has been fed back and accepted
C16_Witness ==
  /\ Handled /\ resp.status = 200 /\ resp.rank # None
  /\ Len(resp.rank[1]) > IntPartLen + 3
  /\ Supplied(req.before) /\ Supplied(req.after)
  /\ calculateNewRank(req.before, resp.rank).kind = "rank"

(***************************************************************************)
(* Properties of the system (checked under Spec)                           *)
(***************************************************************************)

\* C5: in every reachable state any two items of one ordering scope (all
\* subjects; topics of one subject_id; articles of one topic_id) have
\* different rank strings.
C5_DistinctRanks ==
  /\ \A x \in subjects : \A y \in subjects : x.id # y.id => x.rank # y.rank
  /\ \A x \in topics : \A y \in topics :
       (x.id # y.id /\ x.subject_id = y.subject_id) => x.rank # y.rank
  /\ \A x \in articles : \A y \in articles :
       (x.id # y.id /\ x.topic_id = y.topic_id) => x.rank # y.rank

\* the row of rows2 whose id rows1 does not hold is the last of its scope:
\* middle in an empty scope, above every rank of the scope otherwise
AppendedLast(rows1, rows2, scope(_, _)) ==
  \A w \in rows2 :
    (\A x \in rows1 : x.id # w.id) =>
      LET others == { x \in rows1 : scope(x, w) }
      IN  IF others = {} THEN w.rank = RankToString(middle)
          ELSE \A x \in others : StrLess(x.rank, w.rank)

AllSubjects(x, w) == TRUE
SameSubject(x, w) == x.subject_id = w.subject_id
SameTopic(x, w)   == x.topic_id = w.topic_id

\* C6: a create request stores the canonical middle rank when the scope of
\* the new item is empty and otherwise a rank strictly greater than every
\* rank already in the scope, for any number of successive creates.
C6_CreateAppendsLast ==
  [][ /\ AppendedLast(subjects, subjects', AllSubjects)
      /\ AppendedLast(topics, topics', SameSubject)
      /\ AppendedLast(articles, articles', SameTopic) ]_vars

\* a token cookie that is present, signed with JWT_SECRET and not expired
Verifies(tok) == tok.present /\ tok.key = "JWT_SECRET" /\ ~tok.expired

\* C10: a create, update, reorder or delete handler under /api/admin/* acts
\* only on a request whose token cookie verifies against JWT_SECRET; a
\* request with no token or an invalid one is answered 401 and leaves the
\* database, the id counters and the remote files unchanged.
C10_AdminGuarded ==
  [][ (seen'.guarded /\ ~Verifies(seen'.token))
        => resp'.status = 401 /\ UNCHANGED << db, seqs, remote >> ]_vars

\* an expired token was refused while rows exist
C10_Witness ==
  /\ seen = Seen(TRUE, [present |-> TRUE, key |-> "JWT_SECRET", expired |-> TRUE])
  /\ resp.status = 401
  /\ resp.error = "Unauthorized: Invalid token"
  /\ issued
  /\ subjects # {}

\* C12: when an update request moves a topic to another subject, or an
\* article to another topic, the item's rank is replaced by a rank freshly
\* computed within the destination scope, hence one that no item already in
\* the destination scope holds; the rank of the old scope is not carried over.
C12_MoveRecomputesRank ==
  [][ /\ \A w \in topics : \A v \in topics' :
           (v.id = w.id /\ v.subject_id # w.subject_id)
             => \A x \in topics : x.subject_id = v.subject_id => x.rank # v.rank
      /\ \A w \in articles : \A v \in articles' :
           (v.id = w.id /\ v.topic_id # w.topic_id)
             => \A x \in articles : x.topic_id = v.topic_id => x.rank # v.rank ]_vars

\* the step from rows1 to rows2 of one table treats every row as its owner
\* request allows: a row that keeps its id keeps its rank unless the step is
\* a reorder naming it, a row goes only by a delete naming it, and a row
\* comes (with its rank) only by a create
RankOwned(rows1, rows2, reorders(_), deletes(_), creates) ==
  /\ \A w \in rows1 :
       IF \E v \in rows2 : v.id = w.id
       THEN \A v \in rows2 : (v.id = w.id /\ v.rank # w.rank) => reorders(w.id)
       ELSE deletes(w.id)
  /\ (\E v \in rows2 : \A w \in rows1 : w.id # v.id) => creates

SubjectReorders(id) ==
  \E tok \in Tokens, b \in SysRanks, a \in SysRanks : ReorderSubject(tok, id, b, a)
SubjectDeletes(id) == \E tok \in Tokens : DeleteSubject(tok, id)
TopicReorders(id) ==
  \E tok \in Tokens, b \in SysRanks, a \in SysRanks : ReorderTopic(tok, id, b, a)
TopicDeletes(id) == \E tok \in Tokens : DeleteTopic(tok, id)
ArticleReorders(id) ==
  \E tok \in Tokens, b \in SysRanks, a \in SysRanks : ReorderArticle(tok, id, b, a)
ArticleDeletes(id) ==
  \E tok \in Tokens, g \in GhModes({ "ok", "fail1", "fail2" }) :
    DeleteArticle(tok, id, g[1], g[2])

\* C17: the rank of an item is written only by its own create request and by
\* a reorder request naming its id: title updates and the create, reorder,
\* update or delete of any other item leave it unchanged, and a rank
\* disappears only when its owning row is deleted.
C17_RankOwnedByItem ==
  [][ /\ RankOwned(subjects, subjects', SubjectReorders, SubjectDeletes,
                   \E tok \in Tokens, t \in Titles : CreateSubject(tok, t))
      /\ RankOwned(topics, topics', TopicReorders, TopicDeletes,
                   \E tok \in Tokens, t \in Titles, p \in ParentIds : CreateTopic(tok, t, p))
      /\ RankOwned(articles, articles', ArticleReorders, ArticleDeletes,
                   \E tok \in Tokens, t \in Titles, p \in ParentIds,
                      g \in GhModes({ "ok", "fail1" }) : CreateArticle(tok, t, p, g[1], g[2]))
    ]_vars

\* an update has moved a topic to the subject of the other topic and both
\* still hold the rank their creates gave them
C17_Witness ==
  /\ seen.guarded /\ resp.status = 200 /\ resp.rank = None
  /\ { w.id : w \in topics } = { 1, 2 }
  /\ \A w \in topics : w.subject_id = 2 /\ w.rank = MiddleStr

\* the step is an article create, update or delete sent without the
\* x-test-mock-gh header
WithoutMockHeader ==
  \/ \E tok \in Tokens, t \in Titles, p \in ParentIds, f \in { "ok", "fail1" } :
       CreateArticle(tok, t, p, FALSE, f)
  \/ \E tok \in Tokens, id \in 1..MaxArticles, t \in Titles, p \in ParentIds,
        f \in { "ok", "fail1", "fail2" } : UpdateArticle(tok, id, t, p, FALSE, f)
  \/ \E tok \in Tokens, id \in 1..MaxArticles, f \in { "ok", "fail1", "fail2" } :
       DeleteArticle(tok, id, FALSE, f)

\* the GitHub calls in log all ended well and the last of them is the remote
\* operation of the request: the file created, updated or deleted, or (for a
\* delete) found absent by getFileSha
RemoteSucceeded(log) ==
  /\ log # << >>
  /\ \A i \in 1..Len(log) : log[i].outcome # "throw"
  /\ \/ /\ log[Len(log)].fn \in { "createGitHubFile", "updateGitHubFile", "deleteGitHubFile" }
        /\ log[Len(log)].status \in 200..299
     \/ log = << GhCall("getFileSha", 404, "null") >>

\* C20: for article create, update and delete without the x-test-mock-gh
\* header the database write happens only after the remote operation of the
\* request has succeeded; when the remote operation fails the handler
\* answers 500 and the articles table is unchanged.
C20_WriteAfterRemote ==
  [][ /\ (articles' # articles /\ ghlog' = << >>) => ~WithoutMockHeader
      /\ (articles' # articles /\ ghlog' # << >>) => RemoteSucceeded(ghlog')
      /\ (\E i \in 1..Len(ghlog') : ghlog'[i].outcome = "throw")
           => resp'.status = 500 /\ UNCHANGED articles ]_vars

\* GitHub has failed the update of the file of an article: the request was
\* answered 500 and the row is as its create stored it
C20_Witness ==
  /\ Len(ghlog) = 2
  /\ ghlog[1] = GhCall("getFileSha", 200, "sha")
  /\ ghlog[2] = GhCall("updateGitHubFile", 500, "throw")
  /\ resp.status = 500
  /\ \E w \in articles : w.rank = MiddleStr /\ w.file_path \in remote

\* the GitHub calls of a request that found the file of its article absent
MissingFileLog == << GhCall("getFileSha", 404, "null") >>

\* C21: when the row of an article exists and getFileSha returns null for
\* its file, an update without the x-test-mock-gh header answers 404 and
\* leaves the row unchanged, and a delete without it makes no
\* deleteGitHubFile call and deletes the row; when no row has the id of the
\* request, update and delete answer 404 and make no GitHub call.
C21_MissingFileOrRow ==
  [][ (seen'.guarded /\ Verifies(seen'.token)) =>
        /\ \A w \in articles : \A f \in { "ok", "fail1", "fail2" } :
             getFileSha(GhGetStatus(w.file_path, f)) = "null" =>
               /\ (\E t \in Titles \ { "" }, p \in ParentIds :
                     UpdateArticle(seen'.token, w.id, t, p, FALSE, f))
                    => /\ resp'.status = 404
                       /\ ghlog' = MissingFileLog
                       /\ UNCHANGED << articles, remote >>
               /\ DeleteArticle(seen'.token, w.id, FALSE, f)
                    => /\ resp'.status = 200
                       /\ ghlog' = MissingFileLog
                       /\ articles' = articles \ { w }
                       /\ UNCHANGED remote
        /\ \A id \in (1..MaxArticles) \ { w.id : w \in articles } :
             (\/ \E t \in Titles \ { "" }, p \in ParentIds,
                    g \in GhModes({ "ok", "fail1", "fail2" }) :
                    UpdateArticle(seen'.token, id, t, p, g[1], g[2])
              \/ \E g \in GhModes({ "ok", "fail1", "fail2" }) :
                    DeleteArticle(seen'.token, id, g[1], g[2]))
               => /\ resp'.status = 404
                  /\ ghlog' = << >>
                  /\ UNCHANGED << articles, remote >> ]_vars

\* an update has found the file of its article absent from GitHub: it was
\* answered 404 and the row is as its create stored it
C21_Witness ==
  /\ seen.guarded /\ Verifies(seen.token)
  /\ ghlog = MissingFileLog
  /\ resp.status = 404 /\ resp.error = "GitHub file not found for article."
  /\ \E w \in articles : w.title = "a" /\ w.rank = MiddleStr /\ w.file_path \notin remote

\* C22: logout changes no server-side state: after a logout request the
\* token a successful login issued still passes the guard of /api/admin/*
\* for as long as it verifies against JWT_SECRET (an expired one is answered
\* 401), and a login with wrong credentials answers 401 and issues no token.
C22_LogoutKeepsToken ==
  [][ /\ (\E tok \in Tokens : logoutHandler(tok))
           => /\ resp'.status = 200
              /\ UNCHANGED << subjects, topics, articles, seqs, remote, issued >>
      /\ (seen = Seen(FALSE, seen'.token) /\ seen.token.present /\ seen'.guarded)
           => (resp'.status # 401 <=> Verifies(seen'.token))
      /\ loginHandler(FALSE)
           => /\ resp'.status = 401 /\ resp'.error = "Invalid credentials"
              /\ UNCHANGED issued
      /\ (~seen'.guarded /\ resp'.status = 401) => UNCHANGED issued ]_vars

\* the token of the login was sent with a logout request, the request was
\* answered 200, and the article the token created, its remote file and the
\* token are still there
C22_Witness ==
  /\ seen = Seen(FALSE, GoodToken) /\ resp.status = 200
  /\ issued /\ GoodToken \in Tokens /\ AdminGuard(GoodToken)
  /\ \E w \in articles : w.file_path \in remote

(***************************************************************************)
(* Properties of repeated insertion (checked under SpecChain)              *)
(***************************************************************************)

\* the bound b of the gap
ChainBound == req.before[1]

\* no call has failed, and the ranks received so far ascend strictly towards
\* b (so none repeats: string order is transitive)
ChainAscends ==
  /\ resp.status \in { 0, 200 }
  /\ \A i \in 1..(Len(chain) - 1) : StrLess(chain[i], chain[i + 1])
  /\ \A i \in 1..Len(chain) : StrLess(chain[i], ChainBound)

ChainSameValue ==
  DecCmp(Parse(chain[1]).decimal, Parse(ChainBound).decimal) = 0

\* C11 as stated: from any valid ranks a < b the loop r0 = a,
\* r(i+1) = calculateNewRank(b, r(i)) runs 100 iterations without error and
\* gives r0 < r1 < ... < r100 < b with no value repeated.
C11_AnyStart == ChainAscends

\* C11 (amended): from valid ranks a < b of one bucket that denote different
\* values, the loop r0 = a, r(i+1) = calculateNewRank(b, r(i)) runs for at
\* least 100 iterations, every call returning without error, and gives
\* r0 < r1 < ... < r100 < b under string comparison, no value repeated.
C11_Chain == ~ChainSameValue => ChainAscends

\* the hundredth insertion between "0|hzzzzz" and "0|i00001" has been received
C11_Witness ==
  /\ Len(chain) = MaxChain + 1
  /\ chain[1] = << "0", "|", "h", "z", "z", "z", "z", "z" >>
  /\ ChainBound = << "0", "|", "i", "0", "0", "0", "0", "1" >>
  /\ StrLess(chain[MaxChain], chain[MaxChain + 1])

(***************************************************************************)
(* Properties of concurrent requests (checked under SpecConc)              *)
(***************************************************************************)

\* the neighbour ranks request p computed from: the beforeRank / afterRank
\* pair of a reorder; for a create the tail it selected, as afterRank alone
NeighbourInputs(p) ==
  IF frames[p].op = CreateSubjectsOp THEN << None, frames[p].tail >>
  ELSE << frames[p].before, frames[p].after >>

\* request p of the subjects scope has written its rank into a row
StoredSubjectRank(p) ==
  /\ frames[p].pc = "done" /\ frames[p].status \in { 200, 201 }
  /\ \/ frames[p].op = CreateSubjectsOp
     \/ frames[p].op = ReorderSubjectsOp /\ frames[p].id \in { w.id : w \in RankSubjects }

\* C13: when two requests of one scope interleave between reading their
\* neighbour ranks and writing their new rank, the two ranks they store are
\* equal only if both computed from identical neighbour inputs; requests that
\* computed from different neighbour pairs never store the same rank.
C13_EqualOnlyFromSameInputs ==
  (StoredSubjectRank(1) /\ StoredSubjectRank(2)
     /\ NeighbourInputs(1) # NeighbourInputs(2))
    => frames[1].newRank # frames[2].newRank

\* the rows of a table after UPDATE ... SET rank = newRank WHERE id = id:
\* the named row with the new rank, every other row as it was
OnlyNamedRow(rows1, rows2, id, newRank) ==
  /\ { w.id : w \in rows2 } = { w.id : w \in rows1 }
  /\ \A w \in rows1 : \A v \in rows2 :
       v.id = w.id => IF w.id = id THEN v = [w EXCEPT !.rank = newRank] ELSE v = w

\* C14: under any interleaving of concurrent reorder requests, each request
\* changes only the rank of the row whose id it names (no row when the id
\* does not exist, still answering 200): the ranks, hence the relative order,
\* of all other items of the scope and of every other scope are unchanged.
C14_ReorderFrame ==
  [][ \A p \in Slots :
        (frames[p].op # CreateSubjectsOp /\ frames[p].pc # "done" /\ frames'[p].pc # frames[p].pc)
          => IF frames[p].pc = "read"
             THEN UNCHANGED << db, seqs >>
             ELSE /\ frames'[p].status = 200
                  /\ OnlyNamedRow(subjects, subjects',
                       IF frames[p].op = ReorderSubjectsOp THEN frames[p].id ELSE 0,
                       frames[p].newRank[1])
                  /\ OnlyNamedRow(topics, topics',
                       IF frames[p].op = ReorderTopicsOp THEN frames[p].id ELSE 0,
                       frames[p].newRank[1])
                  /\ OnlyNamedRow(articles, articles',
                       IF frames[p].op = ReorderArticlesOp THEN frames[p].id ELSE 0,
                       frames[p].newRank[1]) ]_vars

\* two concurrent subject reorders have both written: one named row 1 and
\* changed its rank alone, the other named no row and was still answered 200
C14_Witness ==
  /\ frames[1].op = ReorderSubjectsOp /\ frames[1].id = 3
  /\ frames[1].pc = "done" /\ frames[1].status = 200
  /\ frames[2].op = ReorderSubjectsOp /\ frames[2].id = 1
  /\ frames[2].pc = "done" /\ frames[2].status = 200
  /\ subjects = SetRank(RankSubjects, 1, frames[2].newRank[1])
  /\ frames[2].newRank # Some(MiddleStr)
  /\ resp.rank = frames[1].newRank

\* the order of the values two rank strings denote: by bucket, then by decimal
ValueCmp(x, y) ==
  IF x.bucket # y.bucket THEN (IF x.bucket < y.bucket THEN -1 ELSE 1)
  ELSE DecCmp(x.decimal, y.decimal)

\* comparing the strings s and t gives what comparing their values gives
OrderAgrees(s, t, c) ==
  /\ StrLess(s, t) <=> c < 0
  /\ StrLess(t, s) <=> c > 0
  /\ (s = t) <=> c = 0

SameOrder(s, t) == OrderAgrees(s, t, ValueCmp(Parse(s), Parse(t)))

\* the newest rank r agrees in order with each of the ranks others
NewestAgrees(r, others) == \A o \in others : SameOrder(o, r) /\ SameOrder(r, o)

\* C15: for any two ranks the engine produced (middle, genNext, genPrev,
\* between, in any combination, at any mantissa length) comparing the strings
\* gives the result of comparing the values they denote; a shorter rank that
\* shares its leading digits with a longer one never sorts after it when the
\* longer one denotes a greater or equal value.  Compared here: each rank of
\* the chain with every rank received before it, with its own genNext and
\* genPrev, with middle and with genNext(middle).
C15_StringOrderIsValueOrder ==
  Len(chain) >= 2 =>
    NewestAgrees(chain[Len(chain)],
      { chain[i] : i \in 2..(Len(chain) - 1) }
        \cup { RankToString(middle), RankToString(genNext(middle)),
               RankToString(genNext(Parse(chain[Len(chain)]))),
               RankToString(genPrev(Parse(chain[Len(chain)]))) })

\* a received rank is a strict prefix of the rank received last, whose
\* mantissa has grown by ten digits or more
C15_Witness ==
  /\ Len(chain) = MaxChain + 1
  /\ Len(chain[Len(chain)]) >= Len(chain[2]) + 10
  /\ SubSeq(chain[Len(chain)], 1, Len(chain[2])) = chain[2]
  /\ StrLess(chain[2], chain[Len(chain)])

\* request p has computed its newRank
Computed(p) == frames[p].pc \in { "write", "done" } /\ frames[p].newRank # None

C19_FailuresThrow ==
  \A i \in 1..Len(ghlog) :
    IF ghlog[i].fn = "getFileSha"
    THEN /\ ghlog[i].status \in 200..299 => ghlog[i].outcome = "sha"
         /\ ghlog[i].outcome = "null" <=> ghlog[i].status = 404
         /\ (ghlog[i].status \notin 200..299 /\ ghlog[i].status # 404)
              => ghlog[i].outcome = "throw"
    ELSE ghlog[i].status \notin 200..299 => ghlog[i].outcome = "throw"

\* getFileSha has met a 403 and thrown
C19_Witness ==
  ghlog = << GhCall("getFileSha", 403, "throw") >>

====
